---- MODULE Spec2Model ----
(***************************************************************************)
(* AdaptiveActiveLearning (libact/query_strategies/multilabel/             *)
(* adaptive_active_learning.py): the constructor and make_query().         *)
(*                                                                         *)
(* Real numbers are fixed-point integers.  Decision values are counted in  *)
(* 1/Unit, so the literal 1. of the hinge terms is Unit.  A trade-off      *)
(* weight b is the integer k with b = k/BetaDen; two scores                *)
(* margin^b * card^(1-b) are compared through their BetaDen-th powers      *)
(* margin^k * card^(BetaDen-k), which orders non-negative reals the same   *)
(* way.  average_pos_lbl and label_cardinality are numerators over the     *)
(* common denominator len(Y).  Arithmetic is exact.                        *)
(*                                                                         *)
(* Identifiers and pool indices are 0-based as in Python; sequences are    *)
(* 1-based, so index i of a Python list is element i+1.                    *)
(*                                                                         *)
(* The ensemble (BinaryRelevance) and the Dataset are collaborators whose  *)
(* code is elsewhere: a trained ensemble's decision matrix is any matrix   *)
(* over the classifier's values, its prediction the sign of the decision.  *)
(* Training and prediction change neither the dataset nor the strategy.    *)
(*                                                                         *)
(* The @profile decorator of line 79 is the line profiler's and leaves the *)
(* method as it is.  make_query() runs to its end without interleaving:    *)
(* the caller labels entries between calls only.                           *)
(***************************************************************************)
EXTENDS Integers, Sequences, FiniteSets, TLC

\* ---------------------------------------------------------------- bounds
MaxEntries == 3      \* entries of a dataset
NLabels == 2         \* length of a label vector
BetaDen == 2         \* trade-off weights are k/BetaDen, k in 0..BetaDen
MaxBetas == 2        \* length of an explicit betas list
Unit == 2            \* fixed-point resolution: the real 1.0
MaxLabeled == 3      \* labeled rows of the sweep specification
MaxPool == 2         \* pool rows of the sweep specification
MaxVal == 1          \* decision values of the sweep specification

\* decision values a trained ensemble may output (in 1/Unit)
ClfVals == {-1, 3}
\* decision values of the sweep specification (in 1/Unit)
SweepVals == (-MaxVal)..MaxVal
\* states of the seeded random source
RngStates == 0..(MaxEntries - 1)

None == -1                      \* no identifier / no index
NoLabel == <<>>                 \* the label of an unlabeled entry (None)
NoneBetas == <<-1>>             \* betas=None
Encodings == {"01", "pm1"}

VARIABLES
    pc,                 \* "new", "idle", "failed", or the position in make_query
    data,               \* dataset.data: the label of each entry, NoLabel if unlabeled
    enc,                \* the label encoding the dataset uses
    args,               \* the constructor's arguments
    self,               \* the strategy's fields
    rng,                \* self.random_state_
    err,                \* the exception the last operation raised, "" if none
    result,             \* the identifier the last make_query returned
    twin,               \* the identifier a second call from the same state returns
    ensembles,          \* ensembles trained by the current or last operation
    unlabeled_entry_ids,
    Y,
    real,
    pred,
    average_pos_lbl,
    separation_margin,
    label_cardinality,
    candidates,
    approx_err,
    br_real,
    ask_idx

fields == <<self, rng>>
locals == <<unlabeled_entry_ids, Y, real, pred, average_pos_lbl,
            separation_margin, label_cardinality, candidates, approx_err,
            br_real, ask_idx>>
vars == <<pc, data, enc, args, err, result, twin, ensembles, fields, locals>>

\* ---------------------------------------------------------------- helpers
Max(S) == CHOOSE x \in S : \A y \in S : y <= x
Min(S) == CHOOSE x \in S : \A y \in S : x <= y
Abs(x) == IF x < 0 THEN -x ELSE x

RECURSIVE SortedSeq(_)
SortedSeq(S) == IF S = {} THEN <<>>
                ELSE LET x == Min(S) IN <<x>> \o SortedSeq(S \ {x})

RECURSIVE SumSeq(_)
SumSeq(s) == IF s = <<>> THEN 0 ELSE Head(s) + SumSeq(Tail(s))

RECURSIVE Pow(_, _)
Pow(x, k) == IF k = 0 THEN 1 ELSE x * Pow(x, k - 1)

Range(s) == {s[i] : i \in DOMAIN s}
RowSum(row) == SumSeq(row)

\* ---------------------------------------------------------------- dataset
\* vectors over the labels; the components after the second repeat the first
Vectors(vals) == {v \in [1..NLabels -> vals] : \A l \in 3..NLabels : v[l] = v[1]}
LabelVals(e) == IF e = "01" THEN {0, 1} ELSE {-1, 1}
LabelVecs(e) == Vectors(LabelVals(e))
Datasets(e) == UNION {[1..n -> LabelVecs(e) \cup {NoLabel}] : n \in 0..MaxEntries}

\* Dataset.get_labeled_entries(): the label vectors of the labeled entries
get_labeled_entries(d) == SelectSeq(d, LAMBDA y : y # NoLabel)
\* Dataset.get_unlabeled_entries(): the identifiers of the unlabeled entries
get_unlabeled_entries(d) == SortedSeq({i - 1 : i \in {j \in DOMAIN d : d[j] = NoLabel}})

\* ---------------------------------------------------------------- ensemble
\* BinaryRelevance.predict_real: one row of decision values per pool entry
Matrices(m, vals) == [1..m -> Vectors(vals)]
\* BinaryRelevance.predict: the sign of the decision value, in the encoding
predict(R, e) == [i \in DOMAIN R |->
                    [l \in 1..NLabels |->
                        IF R[i][l] > 0 THEN 1 ELSE IF e = "01" THEN 0 ELSE -1]]

\* ---------------------------------------------------------------- constructor
\* explicit betas lists: ascending, at most MaxBetas weights
BetaLists == {SortedSeq(S) : S \in {T \in SUBSET (0..BetaDen) : Cardinality(T) <= MaxBetas}}
\* [i/10. for i in range(0, 11)]: the evenly spaced grid over [0, 1]
DefaultBetas == [i \in 1..(BetaDen + 1) |-> i - 1]

NoFields == [n_labels |-> 0, base_clf |-> "", betas |-> <<>>, n_jobs |-> 0]
NoLocals ==
    /\ unlabeled_entry_ids' = <<>>
    /\ Y' = <<>>
    /\ real' = <<>>
    /\ pred' = <<>>
    /\ average_pos_lbl' = <<0, 0>>
    /\ separation_margin' = <<>>
    /\ label_cardinality' = <<>>
    /\ candidates' = <<>>
    /\ approx_err' = <<>>
    /\ br_real' = <<>>
    /\ ask_idx' = None

\* the betas lists the strategy is constructed with: none, the empty list
\* and the two extremes
MainBetas == {NoneBetas, <<>>, <<0>>, <<BetaDen>>}
Args == [base_clf : {"clf"}, betas : MainBetas,
         n_jobs : {1}, random_state : RngStates]

Init ==
    /\ pc = "new"
    /\ enc \in Encodings
    /\ data \in Datasets(enc)
    /\ args \in Args
    /\ self = NoFields
    /\ rng = 0
    /\ err = ""
    /\ result = None
    /\ twin = None
    /\ ensembles = 0
    /\ unlabeled_entry_ids = <<>>
    /\ Y = <<>>
    /\ real = <<>>
    /\ pred = <<>>
    /\ average_pos_lbl = <<0, 0>>
    /\ separation_margin = <<>>
    /\ label_cardinality = <<>>
    /\ candidates = <<>>
    /\ approx_err = <<>>
    /\ br_real = <<>>
    /\ ask_idx = None

\* __init__: len(self.dataset.data[0][1]) raises IndexError on an empty
\* dataset and TypeError when the first entry's label is None
ConstructError(d) == IF Len(d) = 0 THEN "IndexError"
                     ELSE IF d[1] = NoLabel THEN "TypeError"
                     ELSE ""

Construct ==
    /\ pc = "new"
    /\ IF ConstructError(data) # ""
       THEN /\ pc' = "failed"
            /\ err' = ConstructError(data)
            /\ UNCHANGED fields
       ELSE /\ pc' = "idle"
            /\ err' = ""
            /\ self' = [n_labels |-> Len(data[1]),
                        base_clf |-> args.base_clf,
                        betas |-> IF args.betas = NoneBetas THEN DefaultBetas
                                  ELSE args.betas,
                        n_jobs |-> args.n_jobs]
            /\ rng' = args.random_state
    /\ UNCHANGED <<data, enc, args, result, twin, ensembles, locals>>

\* the caller records an oracle's answer: Dataset.update(entry_id, label)
Label ==
    /\ pc = "idle"
    /\ \E i \in DOMAIN data, y \in LabelVecs(enc) :
          /\ data[i] = NoLabel
          /\ data' = [data EXCEPT ![i] = y]
    /\ err' = ""
    /\ result' = None
    /\ twin' = None
    /\ ensembles' = 0
    /\ NoLocals
    /\ UNCHANGED <<pc, enc, args, fields>>

\* ---------------------------------------------------------------- make_query
\* lines 82-91
BeginError(d) == IF Len(get_labeled_entries(d)) = 0 THEN "ValueError"
                 ELSE IF Len(get_unlabeled_entries(d)) = 0 THEN "ValueError"
                 ELSE ""

MQ_Begin ==
    /\ pc = "idle"
    /\ result' = None
    /\ twin' = None
    /\ IF BeginError(data) # ""
       THEN /\ pc' = "idle"
            /\ err' = BeginError(data)
            /\ ensembles' = 0
            /\ NoLocals
       ELSE /\ pc' = "begun"
            /\ err' = ""
            /\ ensembles' = 1
            /\ unlabeled_entry_ids' = get_unlabeled_entries(data)
            /\ Y' = get_labeled_entries(data)
            /\ \E R \in Matrices(Len(get_unlabeled_entries(data)), ClfVals) :
                  /\ real' = R
                  /\ pred' = predict(R, enc)
            /\ average_pos_lbl' = <<0, 0>>
            /\ separation_margin' = <<>>
            /\ label_cardinality' = <<>>
            /\ candidates' = <<>>
            /\ approx_err' = <<>>
            /\ br_real' = <<>>
            /\ ask_idx' = None
    /\ UNCHANGED <<data, enc, args, fields>>

\* lines 93-106: the two measures and the trade-off sweep.  The uncertainty
\* of line 95 (1/margin, inf at a zero margin) is never read.
Margin(R) == [i \in DOMAIN R |-> -Min(Range(R[i])) + Max(Range(R[i]))]
\* Y.mean(axis=0).sum(): the sum of all components over len(Y)
AveragePosLbl(y) == <<SumSeq([r \in DOMAIN y |-> RowSum(y[r])]), Len(y)>>
\* np.sqrt((pred.sum(axis=1) - average_pos_lbl)**2), over the denominator len(Y)
LabelCardinality(P, avg) == [i \in DOMAIN P |-> Abs(avg[2] * RowSum(P[i]) - avg[1])]
\* separation_margin**b * label_cardinality**(1.-b), to the power BetaDen
Score(margin, card, b) ==
    [i \in DOMAIN margin |-> Pow(margin[i], b) * Pow(card[i], BetaDen - b)]
\* the minimizers of the score instead of its maximizers
ArgMin(score) == {i - 1 : i \in {j \in DOMAIN score : score[j] = Min(Range(score))}}
\* np.where(score == np.max(score))[0], as 0-based pool indices
ArgMax(score) == {i - 1 : i \in {j \in DOMAIN score : score[j] = Max(Range(score))}}
\* a sweep that replaces candidate_idx_set at every beta instead of adding to it
SweepLast(betas, margin, card, candidate_idx_set) ==
    IF betas = <<>> THEN candidate_idx_set
    ELSE {i - 1 : i \in {j \in DOMAIN margin :
             Pow(margin[j], betas[Len(betas)]) * Pow(card[j], BetaDen - betas[Len(betas)])
               = Max({Pow(margin[n], betas[Len(betas)])
                        * Pow(card[n], BetaDen - betas[Len(betas)]) : n \in DOMAIN margin})}}
\* the loop over self.betas, adding each maximizer to candidate_idx_set
RECURSIVE Sweep(_, _, _, _)
Sweep(betas, margin, card, candidate_idx_set) ==
    IF betas = <<>> THEN candidate_idx_set
    ELSE Sweep(Tail(betas), margin, card,
               candidate_idx_set \cup ArgMax(Score(margin, card, Head(betas))))

MQ_Sweep ==
    /\ pc = "begun"
    /\ pc' = "swept"
    /\ separation_margin' = Margin(real)
    /\ average_pos_lbl' = AveragePosLbl(Y)
    /\ label_cardinality' = LabelCardinality(pred, AveragePosLbl(Y))
    /\ candidates' = SortedSeq(Sweep(self.betas, Margin(real),
                                     LabelCardinality(pred, AveragePosLbl(Y)), {}))
    /\ approx_err' = <<>>
    /\ UNCHANGED <<data, enc, args, err, result, twin, ensembles, fields,
                   unlabeled_entry_ids, Y, real, pred, br_real, ask_idx>>

\* a speculative step that labels the candidate in the reference dataset
MQ_RetrainInPlace ==
    /\ pc \in {"swept", "scored"}
    /\ Len(approx_err) < Len(candidates)
    /\ pc' = "retrained"
    /\ ensembles' = ensembles + 1
    /\ br_real' \in Matrices(Len(unlabeled_entry_ids), ClfVals)
    /\ \E y \in LabelVecs(enc) :
          data' = [data EXCEPT
                     ![unlabeled_entry_ids[candidates[Len(approx_err) + 1] + 1] + 1] = y]
    /\ real' = <<>>
    /\ pred' = <<>>
    /\ average_pos_lbl' = <<0, 0>>
    /\ separation_margin' = <<>>
    /\ label_cardinality' = <<>>
    /\ UNCHANGED <<enc, args, err, result, twin, fields,
                   unlabeled_entry_ids, Y, candidates, approx_err, ask_idx>>

\* lines 110-114: the next candidate's ensemble and its decision matrix.
\* real, pred and the two measures are not read after the last use of
\* pred[idx] on line 111; they are dropped here.
MQ_Retrain ==
    /\ pc \in {"swept", "scored"}
    /\ Len(approx_err) < Len(candidates)
    /\ pc' = "retrained"
    /\ ensembles' = ensembles + 1
    /\ br_real' \in Matrices(Len(unlabeled_entry_ids), ClfVals)
    /\ real' = <<>>
    /\ pred' = <<>>
    /\ average_pos_lbl' = <<0, 0>>
    /\ separation_margin' = <<>>
    /\ label_cardinality' = <<>>
    /\ UNCHANGED <<data, enc, args, err, result, twin, fields,
                   unlabeled_entry_ids, Y, candidates, approx_err, ask_idx>>

\* lines 116-117: pos = br_real; pos[br_real<0] = 1 writes through to br_real
PosMasked(M) == [i \in DOMAIN M |->
                    [l \in 1..NLabels |-> IF M[i][l] < 0 THEN Unit ELSE M[i][l]]]
\* lines 120-121: neg = br_real; neg[br_real>0] = -1, on the array line 117 left
NegMasked(M) == [i \in DOMAIN M |->
                    [l \in 1..NLabels |-> IF M[i][l] > 0 THEN -Unit ELSE M[i][l]]]
\* line 118: np.max((1.-pos), axis=1)
PosSide(M) == [i \in DOMAIN M |-> Max({Unit - M[i][l] : l \in 1..NLabels})]
\* line 122: np.max((1.+neg), axis=1)
NegSide(M) == [i \in DOMAIN M |-> Max({Unit + M[i][l] : l \in 1..NLabels})]
\* lines 116-124: err = neg + pos
Err(M) == [i \in DOMAIN M |->
              NegSide(NegMasked(PosMasked(M)))[i] + PosSide(PosMasked(M))[i]]

\* lines 116-135
MQ_ApproxErr ==
    /\ pc = "retrained"
    /\ pc' = "scored"
    /\ approx_err' = Append(approx_err, SumSeq(Err(br_real)))
    /\ br_real' = NegMasked(PosMasked(br_real))
    /\ UNCHANGED <<data, enc, args, err, result, twin, ensembles, fields,
                   unlabeled_entry_ids, Y, real, pred, average_pos_lbl,
                   separation_margin, label_cardinality, candidates, ask_idx>>

\* the maximizers of approx_err instead of its minimizers
ChoicesMax(errs) == SortedSeq({i - 1 : i \in {j \in DOMAIN errs : errs[j] = Max(Range(errs))}})
\* line 137: np.where(np.array(approx_err) == np.min(approx_err))[0]
Choices(errs) == SortedSeq({i - 1 : i \in {j \in DOMAIN errs : errs[j] = Min(Range(errs))}})
\* a draw from a source that is not seeded: any element
ChoiceAny(r, a) == Range(a)
\* RandomState.choice(a): the elements the generator in state r may yield
Choice(r, a) == {a[(r % Len(a)) + 1]}
\* the generator's state after one draw
Advance(r) == (r + 1) % Cardinality(RngStates)

\* the pool index itself instead of the identifier at that index
ReturnedIndex(ids, idx) == idx
\* line 140: unlabeled_entry_ids[ask_idx]
Returned(ids, idx) == ids[idx + 1]

\* lines 137-140
MQ_Select ==
    /\ pc \in {"swept", "scored"}
    /\ Len(approx_err) = Len(candidates)
    /\ pc' = "idle"
    /\ IF approx_err = <<>>
       THEN /\ err' = "ValueError"      \* np.min of an empty list
            /\ UNCHANGED <<result, twin, rng, ask_idx>>
       ELSE /\ err' = ""
            /\ \E c \in Choice(rng, Choices(approx_err)) :
                  /\ ask_idx' = candidates[c + 1]
                  /\ result' = Returned(unlabeled_entry_ids, candidates[c + 1])
            /\ \E c \in Choice(rng, Choices(approx_err)) :
                  twin' = Returned(unlabeled_entry_ids, candidates[c + 1])
            /\ rng' = Advance(rng)
    /\ UNCHANGED <<data, enc, args, self, ensembles,
                   unlabeled_entry_ids, Y, real, pred, average_pos_lbl,
                   separation_margin, label_cardinality, candidates,
                   approx_err, br_real>>

Next == Construct \/ Label \/ MQ_Begin \/ MQ_Sweep \/ MQ_Retrain
        \/ MQ_ApproxErr \/ MQ_Select

Spec == Init /\ [][Next]_vars

\* ---------------------------------------------------------------- the sweep
\* The state MQ_Begin leaves for labeled rows y, decision matrix R of the
\* pool and a strategy constructed with the given betas.
AfterBegin(e, y, R, betas) ==
    /\ pc = "begun"
    /\ enc = e
    /\ data = y \o [i \in DOMAIN R |-> NoLabel]
    /\ args = [base_clf |-> "clf", betas |-> betas, n_jobs |-> 1,
               random_state |-> 0]
    /\ self = [n_labels |-> NLabels, base_clf |-> "clf",
               betas |-> IF betas = NoneBetas THEN DefaultBetas ELSE betas,
               n_jobs |-> 1]
    /\ rng = 0
    /\ err = ""
    /\ result = None
    /\ twin = None
    /\ ensembles = 1
    /\ unlabeled_entry_ids = [i \in DOMAIN R |-> Len(y) + i - 1]
    /\ Y = y
    /\ real = R
    /\ pred = predict(R, e)
    /\ average_pos_lbl = <<0, 0>>
    /\ separation_margin = <<>>
    /\ label_cardinality = <<>>
    /\ candidates = <<>>
    /\ approx_err = <<>>
    /\ br_real = <<>>
    /\ ask_idx = None

LabeledRows(e, n) == UNION {[1..k -> LabelVecs(e)] : k \in 1..n}
PoolMatrices(vals) == UNION {Matrices(m, vals) : m \in 1..MaxPool}

\* many labeled rows in either encoding, the ensemble's own decision values
InitCard ==
    \E e \in Encodings :
        \E y \in LabeledRows(e, MaxLabeled), R \in PoolMatrices(ClfVals),
           betas \in MainBetas :
            AfterBegin(e, y, R, betas)

\* one labeled row, every decision matrix over SweepVals, every betas list
InitMargin ==
    \E y \in LabeledRows("01", 1), R \in PoolMatrices(SweepVals),
       betas \in BetaLists \cup {NoneBetas} :
        AfterBegin("01", y, R, betas)

InitSweep == InitCard \/ InitMargin
NextSweep == MQ_Sweep
SpecSweep == InitSweep /\ [][NextSweep]_vars

\* ---------------------------------------------------------------- properties
PosCount(row) == Cardinality({l \in DOMAIN row : row[l] > 0})
SumPosCount(y) == SumSeq([r \in DOMAIN y |-> PosCount(y[r])])
Completed == pc = "idle" /\ result # None
AllScored == pc = "scored" /\ Len(approx_err) = Len(candidates)

\* C1: a make_query() call that completes returns the identifier of an entry
\* that is unlabeled in the dataset: an identifier of the dataset, not a
\* labeled entry's, not a pool index that is no identifier.
C1_ReturnsUnlabeledId ==
    Completed =>
        /\ result \in 0..(Len(data) - 1)
        /\ data[result + 1] = NoLabel
        /\ result \in Range(get_unlabeled_entries(data))
        /\ self.betas # <<>>

\* a completed call whose chosen pool index is the identifier of a labeled entry
C1_Witness ==
    /\ Completed
    /\ Len(unlabeled_entry_ids) >= 2
    /\ data[ask_idx + 1] # NoLabel
    /\ result # ask_idx

\* C2: the error appended for a candidate is the sum over the rows of the
\* fresh decision matrix of the largest positive-side hinge term plus the
\* largest negative-side hinge term, both read from the unmodified matrix.
HingeRow(x) ==
    (IF \E l \in DOMAIN x : x[l] > 0
     THEN Max({0} \cup {Unit - x[l] : l \in {k \in DOMAIN x : x[k] > 0}}) ELSE 0)
  + (IF \E l \in DOMAIN x : x[l] < 0
     THEN Max({0} \cup {Unit + x[l] : l \in {k \in DOMAIN x : x[k] < 0}}) ELSE 0)
HingeErr(M) == SumSeq([i \in DOMAIN M |-> HingeRow(M[i])])
C2_ApproxErrIsHinge ==
    [][MQ_ApproxErr => approx_err'[Len(approx_err')] = HingeErr(br_real)]_vars

C4_ConfigurationError ==
    (pc # "new" /\ get_labeled_entries(data) = <<>>) =>
        /\ pc = "failed"
        /\ err = "ConfigurationError"
        /\ ensembles = 0

\* C5: make_query() on a dataset without an unlabeled entry or without a
\* labeled entry fails with InsufficientDataError, before an ensemble is
\* built and without returning an identifier.
C5_InsufficientDataError ==
    (pc = "idle" /\ err # ""
       /\ (get_unlabeled_entries(data) = <<>> \/ get_labeled_entries(data) = <<>>)) =>
        /\ err = "InsufficientDataError"
        /\ ensembles = 0
        /\ result = None

\* C6: a pool instance whose separation margin and whose label-cardinality
\* inconsistency are both strictly larger than every other instance's attains
\* the maximum score for every beta in [0,1] and is a candidate of the sweep.
Dominant(i) ==
    \A j \in DOMAIN separation_margin \ {i} :
        /\ separation_margin[i] > separation_margin[j]
        /\ label_cardinality[i] > label_cardinality[j]
C6_DominantIsCandidate ==
    pc = "swept" =>
        \A i \in DOMAIN separation_margin :
            Dominant(i) =>
                /\ \A b \in 0..BetaDen :
                      Pow(separation_margin[i], b) * Pow(label_cardinality[i], BetaDen - b)
                        = Max({Pow(separation_margin[j], b)
                                 * Pow(label_cardinality[j], BetaDen - b)
                               : j \in DOMAIN separation_margin})
                /\ self.betas # <<>> => (i - 1) \in Range(candidates)

\* a dominant instance next to one with a positive margin
C6_Witness ==
    /\ pc = "swept"
    /\ self.betas # <<>>
    /\ \E i, j \in DOMAIN separation_margin :
          /\ i # j
          /\ Dominant(i)
          /\ separation_margin[j] > 0
          /\ (i - 1) \in Range(candidates)
          /\ (j - 1) \notin Range(candidates)

\* C7: the candidate set is the union over the betas of the maximizers of the
\* score; the sweep of a single beta of the list yields a subset of it.
MaximizersOf(b) ==
    {i - 1 : i \in {j \in DOMAIN separation_margin :
        \A n \in DOMAIN separation_margin :
            Pow(separation_margin[n], b) * Pow(label_cardinality[n], BetaDen - b)
              <= Pow(separation_margin[j], b) * Pow(label_cardinality[j], BetaDen - b)}}
C7_CandidatesAreUnion ==
    pc = "swept" =>
        /\ Range(candidates) = UNION {MaximizersOf(b) : b \in Range(self.betas)}
        /\ \A b \in Range(self.betas) :
              Sweep(<<b>>, separation_margin, label_cardinality, {})
                 \subseteq Range(candidates)

\* two betas of the list with different maximizers
C7_Witness ==
    /\ pc = "swept"
    /\ \E b1, b2 \in Range(self.betas) :
          /\ MaximizersOf(b1) \cap MaximizersOf(b2) = {}
          /\ MaximizersOf(b1) \cup MaximizersOf(b2) \subseteq Range(candidates)

\* C8: the returned instance is a candidate whose approx_err is the least of
\* all candidates'; every candidate of least approx_err is the outcome of the
\* draw for some state of the random source.
C8_SelectsMinimum ==
    /\ Completed =>
          \E k \in DOMAIN candidates :
              /\ candidates[k] = ask_idx
              /\ result = unlabeled_entry_ids[ask_idx + 1]
              /\ \A j \in DOMAIN approx_err : approx_err[k] <= approx_err[j]
    /\ AllScored =>
          \A k \in DOMAIN approx_err :
              (\A j \in DOMAIN approx_err : approx_err[k] <= approx_err[j]) =>
                  \E r \in RngStates :
                      \E c \in Choice(r, Choices(approx_err)) : c + 1 = k

\* a completed call that passed over a candidate of larger error
C8_Witness ==
    /\ Completed
    /\ Len(candidates) >= 2
    /\ \E j \in DOMAIN approx_err : approx_err[j] > Min(Range(approx_err))

\* C9: average_pos_lbl is the mean over the labeled entries of the number of
\* positive components, label_cardinality the distance of the predicted
\* number of positive components to it, in either encoding; the labeled
\* vectors [1,-1], [1,1], [-1,1] give 4/3.
C9_MeanPositiveCount ==
    pc = "swept" =>
        /\ average_pos_lbl = <<SumPosCount(Y), Len(Y)>>
        /\ \A i \in DOMAIN label_cardinality :
              label_cardinality[i] = Abs(Len(Y) * PosCount(pred[i]) - SumPosCount(Y))
        /\ Y = << <<1, -1>>, <<1, 1>>, <<-1, 1>> >> => average_pos_lbl = <<4, 3>>

\* C10: the steps of make_query() leave the strategy's fields and the dataset
\* as they are; the random source changes in one step only, the draw of the
\* selection, taken once every candidate's error is in approx_err.
CallStep == MQ_Begin \/ MQ_Sweep \/ MQ_Retrain \/ MQ_ApproxErr \/ MQ_Select
C10_Frame ==
    [][CallStep =>
          /\ self' = self
          /\ data' = data
          /\ enc' = enc
          /\ IF pc' = "idle" /\ result' # None
             THEN /\ rng' = (rng + 1) % Cardinality(RngStates)
                  /\ rng' # rng
                  /\ Len(approx_err) = Len(candidates)
                  /\ pc \in {"swept", "scored"}
             ELSE rng' = rng]_vars

\* the first completed call of a strategy, two candidates retrained
C10_Witness ==
    /\ Completed
    /\ ensembles >= 3
    /\ rng = (args.random_state + 1) % Cardinality(RngStates)
    /\ self.n_labels = NLabels
====
